---- MODULE Spec2Model ----
(***************************************************************************)
(* Church contact / attendance API: the contact store, the attendance      *)
(* store and the dashboard analytics aggregation of ContactService.        *)
(*                                                                         *)
(* Time.  A Date is an integer number of ticks; a calendar day holds       *)
(* TicksPerDay ticks, tick 0 of a day being 00:00:00.000 and tick          *)
(* TicksPerDay-1 being 23:59:59.999.  Days are numbered from 1 January;    *)
(* months have the lengths of MonthLengths, so that Date.getDate and       *)
(* Date.setDate are computed the way JavaScript computes them (day of      *)
(* month, with under- and overflow into the neighbouring months).  The     *)
(* local time zone is taken to have a fixed offset (no DST change inside   *)
(* the windows).                                                           *)
(*                                                                         *)
(* Numbers.  A percentage is kept as an exact fraction [num, den] in       *)
(* lowest terms; a division by zero gives NaN (0/0) or Infinity (n/0) as   *)
(* in JavaScript.  Floating point rounding is not modelled.                *)
(*                                                                         *)
(* Admins.  The admin collection and the signup, signin and                *)
(* change-password operations of AuthService behind AuthController and     *)
(* the authenticateToken middleware.  A bcrypt hash is kept as the         *)
(* plaintext it was computed from together with the number of times        *)
(* bcrypt.hash was applied; the salt is not kept, bcrypt.compare reading   *)
(* it from the stored hash.                                                *)
(***************************************************************************)
EXTENDS Integers, Sequences, FiniteSets, TLC

VARIABLES contacts, nextId, attendance, response, analyticsRun, clock, inv,
          admins, signups

vars == <<contacts, nextId, attendance, response, analyticsRun, clock, inv,
          admins, signups>>

(***************************** bounds *************************************)
\* number of attendance records held at one time
MaxRecords == 2
\* ticks per calendar day (granularity of time of day)
TicksPerDay == 3
\* the calendar day (0 = 1 January) of the earlier reference instant
FirstDay == 89

(***************************** calendar ***********************************)
MonthLengths == <<31, 28, 31, 30, 31, 30, 31, 31, 30, 31, 30, 31>>

RECURSIVE MonthStartFrom(_, _, _)
\* first day of the month holding `day`, scanning months from month m that starts on day s
MonthStartFrom(day, m, s) ==
  IF m > Len(MonthLengths) \/ day < s + MonthLengths[m]
  THEN s
  ELSE MonthStartFrom(day, m + 1, s + MonthLengths[m])

\* the first day of the month of every day of the year, computed once
MonthStartTable == [day \in 0 .. 364 |-> MonthStartFrom(day, 1, 0)]

MonthStart(day) ==
  IF day \in DOMAIN MonthStartTable THEN MonthStartTable[day] ELSE MonthStartFrom(day, 1, 0)

DayOf(t) == t \div TicksPerDay
TimeOf(t) == t % TicksPerDay
At(day, tick) == day * TicksPerDay + tick

\* Date.prototype.getDate: the day of the month, 1-based
getDate(t) == DayOf(t) - MonthStart(DayOf(t)) + 1

\* Date.prototype.setDate(n) on the Date t: day n of t's month, n may be
\* <= 0 or beyond the month's end; the time of day of t is kept
setDate(t, n) == At(MonthStart(DayOf(t)) + n - 1, TimeOf(t))

\* setHours(0, 0, 0, 0) and setHours(23, 59, 59, 999)
setHoursStartOfDay(t) == At(DayOf(t), 0)
setHoursEndOfDay(t) == At(DayOf(t), TicksPerDay - 1)

(***************************** numbers ************************************)
RECURSIVE GCD(_, _)
GCD(a, b) == IF b = 0 THEN a ELSE GCD(b, a % b)

NaN == [num |-> 0, den |-> 0]
Infinity == [num |-> 1, den |-> 0]
Zero == [num |-> 0, den |-> 1]

Frac(n, d) == LET g == GCD(n, d) IN [num |-> n \div g, den |-> d \div g]

\* JavaScript n / d on non-negative integers
Div(n, d) == IF d = 0 THEN (IF n = 0 THEN NaN ELSE Infinity) ELSE Frac(n, d)

\* JavaScript x * 100
Times100(x) == IF x.den = 0 THEN x ELSE Frac(x.num * 100, x.den)

(***************************** inputs *************************************)
Genders == {"male", "female"}
\* gender values a request body can carry ("other" stands for any string outside the enum)
GenderInputs == Genders \cup {"other"}

\* the ObjectIds the contact store hands out, in the order it hands them out
ContactIds == {1, 2}

\* the instants at which the clock is read: midday of FirstDay and the
\* midnight that follows it
NowChoices == {At(FirstDay, 1), At(FirstDay + 1, 0)}

\* the dates a markAttendance request can carry
DateChoices ==
  { At(FirstDay - 35, 1),
    At(FirstDay - 28, 1),
    At(FirstDay - 7, TicksPerDay - 1),
    At(FirstDay + 1, 1) }

\* req.body.attended: the JSON booleans true and false, and the string 'false'
AttendedFields == {"true", "false", "'false'"}
\* req.body.markedBy: a name, or absent
MarkedByFields == {"usher", "undefined"}
NoResponse == [op |-> "none", status |-> 0]
NoRun == [currentDate |-> -1]

\* no signup call of this caller is in flight
NoSignup == [pc |-> "idle"]

\* the earliest instant of NowChoices
FirstNow == CHOOSE n \in NowChoices : \A m \in NowChoices : n <= m

\* the requests GET /contacts/dashboard/analytics that can be in flight together
Procs == {1, 2}

\* an invocation of getDashboardAnalytics that has not started has no locals
Idle == [pc |-> "idle"]

\* the locals of getDashboardAnalytics, getWeeklyAttendanceTrend and
\* getRetentionBreakdown before their first assignment
Locals ==
  [pc |-> "idle", currentDate |-> 0, fiveWeeksAgo |-> 0,
   totalContacts |-> 0, attendedAtLeastOnceCount |-> 0, stillAttendingCount |-> 0,
   maleCount |-> 0, femaleCount |-> 0,
   trendDate |-> 0, i |-> 0, weekStart |-> 0, weekEnd |-> 0, result |-> <<>>,
   windows |-> <<>>,
   retentionDate |-> 0, periodStart |-> 0, periodFirstWeekEnd |-> 0,
   firstWeekAttendees |-> {}, recentWeekStart |-> 0,
   failedAt |-> "none", overlapped |-> FALSE, res |-> NoResponse]

(***************************** store queries ******************************)
\* Contact.countDocuments()
CountAllContacts(con) == Cardinality(con)

\* mutant: both gender counts query gender 'male'
CountByGenderMaleOnly(con, g) == Cardinality({c \in con : c.gender = "male"})

\* Contact.countDocuments({ gender: g })
CountByGender(con, g) == Cardinality({c \in con : c.gender = g})

\* Attendance.distinct('contact_id', filter) over the records S matching the filter
Distinct(S) == {r.contact_id : r \in S}

\* Attendance.countDocuments(filter) over the records S matching the filter
CountDocuments(S) == Cardinality(S)

(***************************** analytics **********************************)
WeekCount == 10
RetentionWeeks == 5
FiveWeeksDays == 35

\* mutant: the totalContacts > 0 guard is missing
PercentageUnguarded(count, total) == Times100(Div(count, total))

\* count / total as a percentage, 0 when there is no contact
Percentage(count, total) ==
  IF total > 0 THEN Times100(Div(count, total)) ELSE Zero

\* const fiveWeeksAgo = new Date(); fiveWeeksAgo.setDate(currentDate.getDate() - 35)
\* currentDate and fresh are the two readings of the clock
\* mutant: the cutoff is 5 days, not 5 weeks, back
FiveWeeksAgoFiveDays(currentDate, fresh) ==
  setDate(fresh, getDate(currentDate) - 5)

FiveWeeksAgo(currentDate, fresh) ==
  setDate(fresh, getDate(currentDate) - FiveWeeksDays)

\* mutant: only attended = true records are considered
ContactsAttendedOnly(att) == Distinct({r \in att : r.attended})

\* Attendance.distinct('contact_id')
ContactsAttendedAtLeastOnce(att) == Distinct(att)

\* Attendance.distinct('contact_id', { date: { $gte: fiveWeeksAgo } })
\* mutant: find() instead of distinct('contact_id'): one entry per record
RecentAttendeesPerRecord(att, fiveWeeksAgo) ==
  {r \in att : r.date >= fiveWeeksAgo}

RecentAttendees(att, fiveWeeksAgo) ==
  Distinct({r \in att : r.date >= fiveWeeksAgo})

\* mutant: the week starts 7 days, not 6, before its end
WeekStartSevenBack(currentDate, fresh, i) ==
  setHoursStartOfDay(setDate(fresh, getDate(currentDate) - (i * 7) - 7))

\* weekStart of loop index i
WeekStart(currentDate, fresh, i) ==
  setHoursStartOfDay(setDate(fresh, getDate(currentDate) - (i * 7) - 6))

\* weekEnd of loop index i
WeekEnd(currentDate, fresh, i) ==
  setHoursEndOfDay(setDate(fresh, getDate(currentDate) - (i * 7)))

\* mutant: $lt weekEnd instead of $lte
WeeklyCountExclusiveEnd(att, weekStart, weekEnd) ==
  CountDocuments({r \in att : r.date >= weekStart /\ r.date < weekEnd /\ r.attended})

\* Attendance.countDocuments({ date: { $gte: weekStart, $lte: weekEnd }, attended: true })
WeeklyCount(att, weekStart, weekEnd) ==
  CountDocuments({r \in att : r.date >= weekStart /\ r.date <= weekEnd /\ r.attended})

\* mutant: the label follows the loop index, newest week labelled 1
WeekLabelDescending(weekCount, i) == i + 1

\* week: weekCount - i
WeekLabel(weekCount, i) == weekCount - i

RECURSIVE TrendLoop(_, _, _, _, _)
\* for (let i = weekCount - 1; i >= 0; i--) { ... result.push(...) }
\* each entry also carries the window that was queried
TrendLoop(att, now, weekCount, i, result) ==
  IF i < 0
  THEN result
  ELSE LET weekStart == WeekStart(now, now, i)
           weekEnd == WeekEnd(now, now, i)
       IN TrendLoop(att, now, weekCount, i - 1,
            Append(result, [week |-> WeekLabel(weekCount, i),
                            count |-> WeeklyCount(att, weekStart, weekEnd),
                            weekStart |-> weekStart,
                            weekEnd |-> weekEnd]))

\* the {week, count} entries returned
getWeeklyAttendanceTrend(att, now, weekCount) ==
  LET run == TrendLoop(att, now, weekCount, weekCount - 1, <<>>)
  IN [k \in 1 .. Len(run) |-> [week |-> run[k].week, count |-> run[k].count]]

\* the [weekStart, weekEnd] windows the loop queried, in query order
WeekWindows(att, now, weekCount) ==
  LET run == TrendLoop(att, now, weekCount, weekCount - 1, <<>>)
  IN [k \in 1 .. Len(run) |-> [weekStart |-> run[k].weekStart, weekEnd |-> run[k].weekEnd]]

\* startDate.setDate(currentDate.getDate() - (weeks * 7))
PeriodStart(currentDate, fresh, weeks) ==
  setDate(fresh, getDate(currentDate) - (weeks * 7))

\* periodFirstWeekEnd.setDate(periodStart.getDate() + 7)
PeriodFirstWeekEnd(periodStart) ==
  setDate(periodStart, getDate(periodStart) + 7)

\* mutant: $lte periodFirstWeekEnd instead of $lt
FirstWeekAttendeesInclusiveEnd(att, periodStart, periodFirstWeekEnd) ==
  Distinct({r \in att : r.date >= periodStart /\ r.date <= periodFirstWeekEnd /\ r.attended})

\* Attendance.distinct('contact_id', { date: { $gte: periodStart, $lt: periodFirstWeekEnd }, attended: true })
FirstWeekAttendees(att, periodStart, periodFirstWeekEnd) ==
  Distinct({r \in att : r.date >= periodStart /\ r.date < periodFirstWeekEnd /\ r.attended})

\* recentWeekStart.setDate(currentDate.getDate() - 7)
RecentWeekStart(currentDate, fresh) ==
  setDate(fresh, getDate(currentDate) - 7)

\* mutant: the recent-week query without the $in filter on the cohort
StillAttendingIdsAnyContact(att, firstWeekAttendees, recentWeekStart, currentDate) ==
  Distinct({r \in att : r.date >= recentWeekStart /\ r.date <= currentDate /\ r.attended})

\* Attendance.distinct('contact_id', { contact_id: { $in: firstWeekAttendees },
\*   date: { $gte: recentWeekStart, $lte: currentDate }, attended: true })
StillAttendingIds(att, firstWeekAttendees, recentWeekStart, currentDate) ==
  Distinct({r \in att : /\ r.contact_id \in firstWeekAttendees
                        /\ r.date >= recentWeekStart
                        /\ r.date <= currentDate
                        /\ r.attended})

\* the early return for an empty cohort
EmptyRetention ==
  [stillAttending |-> [count |-> 0, percentage |-> Zero],
   dropOut |-> [count |-> 0, percentage |-> Zero]]

\* mutant: dropOutCount is the cohort size, the re-attenders are not subtracted
RetentionResultNoSubtract(firstWeekLength, stillAttendingCount) ==
  [stillAttending |->
     [count |-> stillAttendingCount,
      percentage |-> Times100(Div(stillAttendingCount, firstWeekLength))],
   dropOut |->
     [count |-> firstWeekLength,
      percentage |-> Times100(Div(firstWeekLength, firstWeekLength))]]

\* the retention record built from the two query results
RetentionResult(firstWeekLength, stillAttendingCount) ==
  LET dropOutCount == firstWeekLength - stillAttendingCount
  IN [stillAttending |->
        [count |-> stillAttendingCount,
         percentage |-> Times100(Div(stillAttendingCount, firstWeekLength))],
      dropOut |->
        [count |-> dropOutCount,
         percentage |-> Times100(Div(dropOutCount, firstWeekLength))]]

getRetentionBreakdown(att, now, weeks) ==
  LET periodStart == PeriodStart(now, now, weeks)
      periodFirstWeekEnd == PeriodFirstWeekEnd(periodStart)
      firstWeekAttendees == FirstWeekAttendees(att, periodStart, periodFirstWeekEnd)
      stillAttendingIds ==
        StillAttendingIds(att, firstWeekAttendees, RecentWeekStart(now, now), now)
  IN IF Cardinality(firstWeekAttendees) = 0
     THEN EmptyRetention
     ELSE RetentionResult(Cardinality(firstWeekAttendees), Cardinality(stillAttendingIds))

\* "Compile all data": the returned object literal
CompileReport(totalContacts, attendedAtLeastOnceCount, stillAttendingCount, maleCount, femaleCount, weeklyAttendanceTrend, retentionBreakdown) ==
  [totalContacts |-> totalContacts,
   attendedAtLeastOnce |->
     [count |-> attendedAtLeastOnceCount,
      percentage |-> Percentage(attendedAtLeastOnceCount, totalContacts)],
   stillAttending |->
     [count |-> stillAttendingCount,
      percentage |-> Percentage(stillAttendingCount, totalContacts)],
   weeklyAttendanceTrend |-> weeklyAttendanceTrend,
   genderDistribution |->
     [male |-> [count |-> maleCount,
                percentage |-> Percentage(maleCount, totalContacts)],
      female |-> [count |-> femaleCount,
                  percentage |-> Percentage(femaleCount, totalContacts)]],
   retentionBreakdown |-> retentionBreakdown]

\* the report of ContactService.getDashboardAnalytics when every clock reading is `now`
getDashboardAnalytics(con, att, now) ==
  CompileReport(CountAllContacts(con),
                Cardinality(ContactsAttendedAtLeastOnce(att)),
                Cardinality(RecentAttendees(att, FiveWeeksAgo(now, now))),
                CountByGender(con, "male"),
                CountByGender(con, "female"),
                getWeeklyAttendanceTrend(att, now, WeekCount),
                getRetentionBreakdown(att, now, RetentionWeeks))

(***************************** operations *********************************)
Init ==
  /\ contacts = {}
  /\ nextId = 1
  /\ attendance = {}
  /\ response = NoResponse
  /\ analyticsRun = NoRun
  /\ clock = FirstNow
  /\ inv = [p \in Procs |-> Idle]
  /\ admins = {}
  /\ signups = [p \in Procs |-> NoSignup]

\* ContactService.createContact: save() validates the gender enum
createContact ==
  \E g \in GenderInputs :
    /\ nextId \in ContactIds
    /\ IF g \in Genders
       THEN /\ contacts' = contacts \cup {[id |-> nextId, gender |-> g]}
            /\ nextId' = nextId + 1
            /\ response' = [op |-> "createContact", status |-> 201]
       ELSE /\ UNCHANGED <<contacts, nextId>>
            /\ response' = [op |-> "createContact", status |-> 400]
    /\ analyticsRun' = NoRun
    /\ UNCHANGED <<clock, inv, admins, signups>>
    /\ UNCHANGED attendance

\* ContactService.updateContact: findByIdAndUpdate(id, updateData, { new: true }),
\* which runs no schema validators
updateContact ==
  \E id \in ContactIds, g \in GenderInputs :
    /\ IF \E c \in contacts : c.id = id
       THEN /\ contacts' = {IF c.id = id THEN [c EXCEPT !.gender = g] ELSE c : c \in contacts}
            /\ response' = [op |-> "updateContact", status |-> 200]
       ELSE /\ UNCHANGED contacts
            /\ response' = [op |-> "updateContact", status |-> 404]
    /\ analyticsRun' = NoRun
    /\ UNCHANGED <<clock, inv, admins, signups>>
    /\ UNCHANGED <<nextId, attendance>>

\* ContactService.deleteContact: findByIdAndDelete(id); attendance is not touched
\* mutant: the attendance records of the deleted contact are deleted with it
deleteContactCascade(id) ==
  /\ IF \E c \in contacts : c.id = id
     THEN /\ contacts' = {c \in contacts : c.id # id}
          /\ response' = [op |-> "deleteContact", status |-> 200]
     ELSE /\ UNCHANGED contacts
          /\ response' = [op |-> "deleteContact", status |-> 404,
                          error |-> "Contact not found"]
  /\ attendance' = {r \in attendance : r.contact_id # id}
  /\ analyticsRun' = NoRun
  /\ UNCHANGED <<clock, inv, admins, signups>>
  /\ UNCHANGED nextId

\* ContactController.deleteContact -> ContactService.deleteContact with its id
deleteContactWith(id) ==
  /\ IF \E c \in contacts : c.id = id
     THEN /\ contacts' = {c \in contacts : c.id # id}
          /\ response' = [op |-> "deleteContact", status |-> 200]
     ELSE /\ UNCHANGED contacts
          /\ response' = [op |-> "deleteContact", status |-> 404,
                          error |-> "Contact not found"]
  /\ analyticsRun' = NoRun
  /\ UNCHANGED <<clock, inv, admins, signups>>
  /\ UNCHANGED <<nextId, attendance>>

deleteContact ==
  \E id \in ContactIds : deleteContactWith(id)

\* mutant: no unique index, save() never reports a duplicate key
DuplicateKeyNoIndex(att, id, d) == FALSE

\* the unique index { contact_id: 1, date: 1 }: a record with this key exists
DuplicateKey(att, id, d) == \E r \in att : r.contact_id = id /\ r.date = d

\* AttendanceService.markAttendance with its arguments: save() of a new record
\* dated new Date(data.date), the instant as given; the unique index rejects a
\* second record for the pair
markAttendanceWith(id, d, a) ==
  /\ IF DuplicateKey(attendance, id, d)
     THEN /\ UNCHANGED attendance
          /\ response' = [op |-> "markAttendance", status |-> 400]
     ELSE /\ Cardinality(attendance) < MaxRecords
          /\ attendance' = attendance \cup {[contact_id |-> id, date |-> d, attended |-> a]}
          /\ response' = [op |-> "markAttendance", status |-> 201]
  /\ analyticsRun' = NoRun
  /\ UNCHANGED <<clock, inv, admins, signups>>
  /\ UNCHANGED <<contacts, nextId>>

\* AttendanceService.markAttendance called by any caller of the service
markAttendance ==
  \E id \in 1 .. (nextId - 1), d \in DateChoices, a \in BOOLEAN :
    markAttendanceWith(id, d, a)

\* JavaScript truthiness of a body field
Truthy(v) == v \notin {"undefined", "false"}

\* Mongoose's cast of the attended field to Boolean
CastBoolean(v) == v \in {"true", "'true'"}

\* AttendanceController.markAttendance with the fields of req.body:
\* a falsy field answers 400 'Missing required fields', otherwise the service
\* is called, 201 with the record or 400 with the error's message
postAttendanceWith(id, d, attendedField, markedByField) ==
  /\ IF ~Truthy(attendedField) \/ ~Truthy(markedByField)
     THEN /\ UNCHANGED attendance
          /\ response' = [op |-> "POST /attendance", status |-> 400,
                          error |-> "Missing required fields"]
     ELSE IF DuplicateKey(attendance, id, d)
     THEN /\ UNCHANGED attendance
          /\ response' = [op |-> "POST /attendance", status |-> 400,
                          error |-> "E11000 duplicate key error"]
     ELSE /\ Cardinality(attendance) < MaxRecords
          /\ attendance' = attendance \cup
               {[contact_id |-> id, date |-> d, attended |-> CastBoolean(attendedField)]}
          /\ response' = [op |-> "POST /attendance", status |-> 201]
  /\ analyticsRun' = NoRun
  /\ UNCHANGED <<clock, inv, admins, signups>>
  /\ UNCHANGED <<contacts, nextId>>

\* POST /attendance with any body; a body that fails the presence check is
\* answered before contactId and date are used, one value stands for all
postAttendance ==
  \E attendedField \in AttendedFields, markedByField \in MarkedByFields :
    LET present == Truthy(attendedField) /\ Truthy(markedByField)
    IN \E id \in (IF present THEN 1 .. (nextId - 1) ELSE {0}),
          d \in (IF present THEN DateChoices ELSE {0}) :
         postAttendanceWith(id, d, attendedField, markedByField)

\* AttendanceService.deleteAttendance: findByIdAndDelete(id)
deleteAttendance ==
  \E r \in attendance :
    /\ attendance' = attendance \ {r}
    /\ response' = [op |-> "deleteAttendance", status |-> 200]
    /\ analyticsRun' = NoRun
    /\ UNCHANGED <<clock, inv, admins, signups>>
    /\ UNCHANGED <<contacts, nextId>>

\* the body of the 500 answer of ContactController.getDashboardAnalytics
AnalyticsError == "Failed to retrieve dashboard analytics"

\* mutant: the handler also removes the attendance records of contacts that
\* no longer exist
dashboardAnalyticsPruning ==
  \E now \in NowChoices :
    /\ response' = [op |-> "getDashboardAnalytics", status |-> 200,
                    body |-> getDashboardAnalytics(contacts, attendance, now)]
    /\ analyticsRun' = [currentDate |-> now,
                        weekWindows |-> WeekWindows(attendance, now, WeekCount)]
    /\ attendance' = {r \in attendance : \E c \in contacts : c.id = r.contact_id}
    /\ UNCHANGED <<contacts, nextId, clock, inv, admins, signups>>

\* ContactController.getDashboardAnalytics -> ContactService.getDashboardAnalytics,
\* run to completion with the clock at `now`: res.json(analytics), or the
\* catch branch when a query rejects
dashboardAnalytics ==
  \E now \in NowChoices, ok \in BOOLEAN :
    /\ IF ok
       THEN /\ response' = [op |-> "getDashboardAnalytics", status |-> 200,
                            body |-> getDashboardAnalytics(contacts, attendance, now)]
            /\ analyticsRun' = [currentDate |-> now,
                                weekWindows |-> WeekWindows(attendance, now, WeekCount)]
       ELSE /\ response' = [op |-> "getDashboardAnalytics", status |-> 500,
                            error |-> AnalyticsError]
            /\ analyticsRun' = NoRun
    /\ UNCHANGED <<contacts, nextId, attendance, clock, inv, admins, signups>>

\* the routes of the contact router, in registration order; none names a middleware
ContactRoutes ==
  << [method |-> "POST", path |-> <<>>, middleware |-> <<>>, handler |-> "createContact"],
     [method |-> "GET", path |-> <<>>, middleware |-> <<>>, handler |-> "getAllContacts"],
     [method |-> "GET", path |-> <<":id">>, middleware |-> <<>>, handler |-> "getContactById"],
     [method |-> "PUT", path |-> <<":id">>, middleware |-> <<>>, handler |-> "updateContact"],
     [method |-> "DELETE", path |-> <<":id">>, middleware |-> <<>>, handler |-> "deleteContact"],
     [method |-> "GET", path |-> <<"first-timers">>, middleware |-> <<>>,
      handler |-> "getFirstTimers"],
     [method |-> "GET", path |-> <<"by-evangelist", ":evangelistName">>, middleware |-> <<>>,
      handler |-> "getContactsByEvangelist"],
     [method |-> "POST", path |-> <<"search">>, middleware |-> <<>>, handler |-> "searchContacts"],
     [method |-> "POST", path |-> <<"filter">>, middleware |-> <<>>, handler |-> "filterContacts"],
     [method |-> "GET", path |-> <<"dashboard", "analytics">>, middleware |-> <<>>,
      handler |-> "getDashboardAnalytics"] >>

\* the route parameters
ParamSegments == {":id", ":evangelistName"}

\* Express path matching: same number of segments, a parameter matches any segment
Match(pattern, path) ==
  /\ Len(pattern) = Len(path)
  /\ \A k \in 1 .. Len(pattern) : pattern[k] \in ParamSegments \/ pattern[k] = path[k]

NoRoute == [method |-> "none", path |-> <<>>, middleware |-> <<>>, handler |-> "none"]

\* the first registered route that matches the request
Dispatch(routes, method, path) ==
  LET matching == {k \in 1 .. Len(routes) :
                     routes[k].method = method /\ Match(routes[k].path, path)}
  IN IF matching = {}
     THEN NoRoute
     ELSE routes[CHOOSE k \in matching : \A j \in matching : k <= j]

\* the Authorization header of a request: absent, a scheme without a token, a
\* token verifyToken rejects, a token it accepts
AuthHeaders ==
  {"none", "", "Bearer", "Bearer ", "Bearer invalid", "Bearer admin", "Bearer admin2"}

\* authHeader.split(' ')
Split(header) ==
  CASE header = "" -> <<"">>
    [] header = "Bearer" -> <<"Bearer">>
    [] header = "Bearer " -> <<"Bearer", "">>
    [] header = "Bearer invalid" -> <<"Bearer", "invalid">>
    [] header = "Bearer admin" -> <<"Bearer", "admin">>
    [] header = "Bearer admin2" -> <<"Bearer", "admin2">>

\* AuthService.generateToken: jwt.sign({ adminId }, secret)
generateToken(adminId) == IF adminId = 1 THEN "admin" ELSE "admin2"

\* AuthService.verifyToken: jwt.verify returns the payload of a token signed
\* with the secret and throws on any other string
verifyToken(token) ==
  IF token = "admin" THEN [ok |-> TRUE, payload |-> [adminId |-> 1]]
  ELSE IF token = "admin2" THEN [ok |-> TRUE, payload |-> [adminId |-> 2]]
  ELSE [ok |-> FALSE, message |-> "jwt malformed"]

\* req.admin of a request the middleware did not let through
NoAdmin == [adminId |-> 0]

\* res.status(401).json({ error }); return
Refused(message) ==
  [status |-> 401, error |-> message, nexts |-> 0, sent |-> 1, admin |-> NoAdmin]

\* mutant: the return after 'Invalid token format' is missing, verifyToken
\* throws on the empty token and the catch block answers a second time
authenticateTokenNoReturn(header) ==
  IF header \in {"none", ""} THEN Refused("No token provided")
  ELSE LET parts == Split(header)
       IN IF Len(parts) < 2 \/ parts[2] = ""
          THEN [Refused("Invalid token format") EXCEPT !.sent = 2]
          ELSE LET decoded == verifyToken(parts[2])
               IN IF decoded.ok
                  THEN [status |-> 0, error |-> "", nexts |-> 1, sent |-> 0,
                        admin |-> decoded.payload]
                  ELSE Refused(decoded.message)

\* what authenticateToken does with a request: the number of calls of next(),
\* the number of responses it sends with their status and error (status 0
\* when it sends none), and req.admin
authenticateToken(header) ==
  IF header \in {"none", ""} THEN Refused("No token provided")
  ELSE LET parts == Split(header)
       IN IF Len(parts) < 2 \/ parts[2] = ""
          THEN Refused("Invalid token format")
          ELSE LET decoded == verifyToken(parts[2])
               IN IF decoded.ok
                  THEN [status |-> 0, error |-> "", nexts |-> 1, sent |-> 0,
                        admin |-> decoded.payload]
                  ELSE Refused(decoded.message)

\* the route runs authenticateToken before its handler
Guarded(route) ==
  \E m \in 1 .. Len(route.middleware) : route.middleware[m] = "authenticateToken"

\* the Authorization headers a route tells apart: a route without the
\* middleware never reads the header
HeadersRead(route) ==
  IF Guarded(route) THEN AuthHeaders ELSE {CHOOSE header \in AuthHeaders : TRUE}

\* GET /contacts/dashboard/analytics with the given Authorization header:
\* the middleware of the matched route, then its handler
getDashboardAnalyticsRequestWith(header) ==
  LET route == Dispatch(ContactRoutes, "GET", <<"dashboard", "analytics">>)
  IN /\ route.handler = "getDashboardAnalytics"
     /\ IF Guarded(route) /\ authenticateToken(header).status # 0
        THEN /\ response' = [op |-> "getDashboardAnalytics",
                             status |-> authenticateToken(header).status,
                             error |-> authenticateToken(header).error]
             /\ analyticsRun' = NoRun
             /\ UNCHANGED <<contacts, nextId, attendance, clock, inv, admins, signups>>
        ELSE dashboardAnalytics

\* GET /contacts/dashboard/analytics from any caller
getDashboardAnalyticsRequest ==
  \E header \in HeadersRead(Dispatch(ContactRoutes, "GET", <<"dashboard", "analytics">>)) :
    getDashboardAnalyticsRequestWith(header)

Next ==
  \/ createContact
  \/ updateContact
  \/ deleteContact
  \/ markAttendance
  \/ postAttendance
  \/ deleteAttendance
  \/ getDashboardAnalyticsRequest

Spec == Init /\ [][Next]_vars

(***************************** contact queries ****************************)
\* the evangelist names and first visit dates of stored contacts
EvangelistNames == {"Ada", "Obi"}
VisitDates == {At(FirstDay - 40, 1), At(FirstDay - 10, 0)}

\* the contact documents with id `id`, with the fields the queries read;
\* created_at follows the order in which the ids are handed out
ContactDocs(id) ==
  [id : {id}, gender : Genders, evangelist_name : EvangelistNames,
   first_visit_date : VisitDates]

\* the application after up to two contacts were created
InitDirectory ==
  /\ contacts \in {{}} \cup {{c} : c \in ContactDocs(1)}
                       \cup {{c, d} : c \in ContactDocs(1), d \in ContactDocs(2)}
  /\ nextId = Cardinality(contacts) + 1
  /\ attendance = {}
  /\ response = NoResponse
  /\ analyticsRun = NoRun
  /\ clock = FirstNow
  /\ inv = [p \in Procs |-> Idle]
  /\ admins = {}
  /\ signups = [p \in Procs |-> NoSignup]

RECURSIVE SortByCreatedAtDesc(_)
\* .sort({ created_at: -1 })
SortByCreatedAtDesc(S) ==
  IF S = {}
  THEN <<>>
  ELSE LET newest == CHOOSE c \in S : \A d \in S : d.id <= c.id
       IN <<newest>> \o SortByCreatedAtDesc(S \ {newest})

\* the values of the fields of a filter body: absent, the empty string and a
\* value some contacts have and others do not
GenderFilters == {"undefined", "", "male"}
EvangelistFilters == {"undefined", "", "Ada"}

\* new Date(filters.dateRange.start) and new Date(filters.dateRange.end): the
\* instant the string denotes, here each instant of VisitDates, or an
\* Invalid Date for a string that does not parse
DateInputs ==
  {[valid |-> TRUE, time |-> t] : t \in VisitDates} \cup {[valid |-> FALSE, time |-> 0]}

\* filters.dateRange: absent, or an object with start and end
DateRanges ==
  {[given |-> FALSE, start |-> d, end |-> d] : d \in {CHOOSE d \in DateInputs : ~d.valid}}
    \cup {[given |-> TRUE, start |-> s, end |-> e] : s \in DateInputs, e \in DateInputs}

FilterInputs == [gender : GenderFilters, evangelist : EvangelistFilters, dateRange : DateRanges]

\* JavaScript truthiness of a string field
TruthyString(v) == v \notin {"undefined", ""}

\* mutant: the end of the range is compared with $lt
filterContactsExclusiveEnd(con, filters) ==
  LET start == filters.dateRange.start
      end == filters.dateRange.end
  IN IF filters.dateRange.given /\ ~(start.valid /\ end.valid)
     THEN [ok |-> FALSE, error |-> "CastError"]
     ELSE [ok |-> TRUE,
           contacts |->
             SortByCreatedAtDesc(
               {c \in con :
                  /\ TruthyString(filters.gender) => c.gender = filters.gender
                  /\ TruthyString(filters.evangelist) =>
                       c.evangelist_name = filters.evangelist
                  /\ filters.dateRange.given =>
                       /\ c.first_visit_date >= start.time
                       /\ c.first_visit_date < end.time})]

\* ContactService.filterContacts: the query is built from the truthy fields
\* and find(query).sort({ created_at: -1 }) is awaited; an Invalid Date in
\* the query makes find reject with a CastError, which is rethrown
filterContacts(con, filters) ==
  LET start == filters.dateRange.start
      end == filters.dateRange.end
  IN IF filters.dateRange.given /\ ~(start.valid /\ end.valid)
     THEN [ok |-> FALSE, error |-> "CastError"]
     ELSE [ok |-> TRUE,
           contacts |->
             SortByCreatedAtDesc(
               {c \in con :
                  /\ TruthyString(filters.gender) => c.gender = filters.gender
                  /\ TruthyString(filters.evangelist) =>
                       c.evangelist_name = filters.evangelist
                  /\ filters.dateRange.given =>
                       /\ c.first_visit_date >= start.time
                       /\ c.first_visit_date <= end.time})]

\* POST /contacts/filter with the given body: ContactController.filterContacts
filterContactsRequestWith(filters) ==
  /\ Dispatch(ContactRoutes, "POST", <<"filter">>).handler = "filterContacts"
  /\ LET result == filterContacts(contacts, filters)
     IN response' = IF result.ok
                    THEN [op |-> "filterContacts", status |-> 200, body |-> result.contacts]
                    ELSE [op |-> "filterContacts", status |-> 400, error |-> result.error]
  /\ UNCHANGED <<contacts, nextId, attendance, analyticsRun, clock, inv, admins, signups>>

filterContactsRequest == \E filters \in FilterInputs : filterContactsRequestWith(filters)

\* oneMonthAgo.setMonth(oneMonthAgo.getMonth() - 1): the same day of the
\* month in the month before, running over into the next month when that
\* month is shorter
OneMonthAgo(now) ==
  LET start == MonthStart(DayOf(now))
      before == IF start = 0 THEN 0 - MonthLengths[Len(MonthLengths)] ELSE MonthStart(start - 1)
  IN At(before + getDate(now) - 1, TimeOf(now))

\* ContactService.getFirstTimers
getFirstTimers(con, now) == {c \in con : c.first_visit_date >= OneMonthAgo(now)}

\* the single-segment paths of a GET /contacts/... request: the name of the
\* first-timers list, the ids of the documents and an id no document has
GetPaths == {<<"first-timers">>, <<"1">>, <<"2">>, <<"3">>}

\* what findById makes of the path segment: the ObjectId it spells, and for
\* the 12 characters of 'first-timers' either a CastError (0), with a driver
\* that takes 24 hexadecimal characters only, or the ObjectId of its 12
\* bytes, which no document has (-1), with a driver that takes any 12 bytes
CastObjectId(segment) ==
  CASE segment = "1" -> {1}
    [] segment = "2" -> {2}
    [] segment = "3" -> {3}
    [] OTHER -> {0, -1}

\* ContactController.getContactById over ContactService.getContactById
getContactById(segment) ==
  \E id \in CastObjectId(segment) :
    response' =
      IF id = 0
      THEN [op |-> "getContactById", status |-> 400, error |-> "CastError"]
      ELSE IF \A c \in contacts : c.id # id
      THEN [op |-> "getContactById", status |-> 404, error |-> "Contact not found"]
      ELSE [op |-> "getContactById", status |-> 200,
            body |-> [contact |-> CHOOSE c \in contacts : c.id = id,
                      attendance |-> {r \in attendance : r.contact_id = id}]]

\* GET /contacts/<path>: the handler of the first registered route that
\* matches the path
getContactsRequestWith(path) ==
  /\ LET route == Dispatch(ContactRoutes, "GET", path)
     IN CASE route.handler = "getContactById" -> getContactById(path[1])
          [] route.handler = "getFirstTimers" ->
               response' = [op |-> "getFirstTimers", status |-> 200,
                            body |-> getFirstTimers(contacts, clock)]
          [] OTHER -> FALSE
  /\ UNCHANGED <<contacts, nextId, attendance, analyticsRun, clock, inv, admins, signups>>

getContactsRequest == \E path \in GetPaths : getContactsRequestWith(path)

NextQueries ==
  \/ filterContactsRequest
  \/ getContactsRequest

\* the read-only contact routes over a contact collection
SpecQueries == InitDirectory /\ [][NextQueries]_vars

(***************************** admins *************************************)
\* the email addresses a signup or signin request can carry
EmailInputs == {"a@x.io", "A@x.io", "b@x.io"}

\* adminSchema email { lowercase: true, trim: true }: the setter Mongoose
\* applies to the value of a document and to the filter of a query
Lowercase(email) == IF email = "A@x.io" THEN "a@x.io" ELSE email

\* the passwords a request can carry
Passwords == {"pw1", "pw2"}

\* a string a request carries, as the input of bcrypt
Plain(password) == [plain |-> password, rounds |-> 0]

\* bcrypt.hash(data, salt): data is a password or, in the pre-save hook, a
\* string that is itself a bcrypt hash
bcryptHash(data) == [plain |-> data.plain, rounds |-> data.rounds + 1]

\* bcrypt.compare(candidate, hash): hash is a bcrypt hash of candidate
bcryptCompare(candidate, hash) == hash = bcryptHash(Plain(candidate))

\* adminSchema.pre('save'): password_hash is hashed when it was modified,
\* which it is in a new document and after an assignment
preSave(doc, isModified) ==
  IF ~isModified THEN doc ELSE [doc EXCEPT !.password_hash = bcryptHash(@)]

\* adminSchema.methods.comparePassword
comparePassword(admin, candidatePassword) ==
  bcryptCompare(candidatePassword, admin.password_hash)

\* mutant: the existence check of signup is missing
ExistingAdminUnchecked(adm, email) == {}

\* adminModel.findOne({ email })
ExistingAdmin(adm, email) == {a \in adm : a.email = Lowercase(email)}

\* mutant: the email field has no unique index
DuplicateEmailNoIndex(adm, email) == FALSE

\* the unique index of adminSchema.email rejects the insert
DuplicateEmail(adm, email) == \E a \in adm : a.email = email

\* AuthController's answer to a BaseError: its status code and its name
AdminExistsError(email) ==
  [status |-> 400, error |-> "AdminExistsError", email |-> email]
InvalidCredentialsError == [status |-> 401, error |-> "InvalidCredentialsError"]
AdminNotFoundError == [status |-> 404, error |-> "AdminNotFoundError"]
PasswordMismatchError == [status |-> 400, error |-> "PasswordMismatchError"]
\* AuthController's answer to any other error
UnexpectedError == [status |-> 500, error |-> "An unexpected error occurred"]

\* POST /auth/signup enters AuthService.signup({ name, email, password }) and
\* awaits adminModel.findOne({ email }); the name is stored and never read
signupStart(p) ==
  /\ signups[p].pc \in {"idle", "done"}
  /\ \E email \in EmailInputs, password \in Passwords :
       signups' = [signups EXCEPT ![p] =
                     [pc |-> "findOne", email |-> email, password |-> password]]
  /\ UNCHANGED <<contacts, nextId, attendance, response, analyticsRun, clock, inv, admins>>

\* const existingAdmin = await findOne(...): AdminExistsError, answered 400
\* by the controller, or bcrypt.genSalt and bcrypt.hash are awaited
signupFindOne(p) ==
  /\ signups[p].pc = "findOne"
  /\ LET l == signups[p]
     IN signups' = [signups EXCEPT ![p] =
                      IF ExistingAdmin(admins, l.email) # {}
                      THEN [pc |-> "done", email |-> l.email, password |-> l.password,
                            res |-> AdminExistsError(l.email)]
                      ELSE [pc |-> "hash", email |-> l.email, password |-> l.password]]
  /\ UNCHANGED <<contacts, nextId, attendance, response, analyticsRun, clock, inv, admins>>

\* const hashedPassword = await bcrypt.hash(password, salt); the document is
\* built and admin.save() is awaited
signupHash(p) ==
  /\ signups[p].pc = "hash"
  /\ LET l == signups[p]
     IN signups' = [signups EXCEPT ![p] =
                      [pc |-> "save", email |-> l.email, password |-> l.password,
                       hashedPassword |-> bcryptHash(Plain(l.password))]]
  /\ UNCHANGED <<contacts, nextId, attendance, response, analyticsRun, clock, inv, admins>>

\* const savedAdmin = await admin.save(): the pre-save hook runs, the insert
\* is rejected by the unique index (an error that is no BaseError, answered
\* 500) or stores the document; the token is generated and answered with 201
signupSave(p) ==
  /\ signups[p].pc = "save"
  /\ LET l == signups[p]
         admin == preSave([id |-> Cardinality(admins) + 1,
                           email |-> Lowercase(l.email),
                           password_hash |-> l.hashedPassword], TRUE)
     IN IF DuplicateEmail(admins, admin.email)
        THEN /\ UNCHANGED admins
             /\ signups' = [signups EXCEPT ![p] =
                              [pc |-> "done", email |-> l.email, password |-> l.password,
                               res |-> UnexpectedError]]
        ELSE /\ admins' = admins \cup {admin}
             /\ signups' = [signups EXCEPT ![p] =
                              [pc |-> "done", email |-> l.email, password |-> l.password,
                               res |-> [status |-> 201, token |-> generateToken(admin.id),
                                        savedAdmin |-> admin]]]
  /\ UNCHANGED <<contacts, nextId, attendance, response, analyticsRun, clock, inv>>

\* POST /auth/signin: AuthService.signin(email, password) behind
\* AuthController.signin
signinWith(email, password) ==
  /\ LET found == ExistingAdmin(admins, email)
     IN response' =
          IF found = {}
          THEN [op |-> "signin"] @@ InvalidCredentialsError
          ELSE LET admin == CHOOSE a \in found : TRUE
               IN IF ~comparePassword(admin, password)
                  THEN [op |-> "signin"] @@ InvalidCredentialsError
                  ELSE [op |-> "signin", status |-> 200, token |-> generateToken(admin.id)]
  /\ UNCHANGED <<contacts, nextId, attendance, analyticsRun, clock, inv, admins, signups>>

signin == \E email \in EmailInputs, password \in Passwords : signinWith(email, password)

\* the routes of authRoutes, in the order they are registered
AuthRoutes ==
  << [method |-> "POST", path |-> <<"signup">>, middleware |-> <<>>, handler |-> "signup"],
     [method |-> "POST", path |-> <<"signin">>, middleware |-> <<>>, handler |-> "signin"],
     [method |-> "PUT", path |-> <<"change-password">>,
      middleware |-> <<"authenticateToken">>, handler |-> "changePassword"],
     [method |-> "POST", path |-> <<"introspect">>,
      middleware |-> <<"authenticateToken">>, handler |-> "introspect"] >>

\* AuthController.changePassword over AuthService.changePassword, for the
\* req.admin the middleware set
changePassword(reqAdmin, currentPassword, newPassword) ==
  LET found == {a \in admins : a.id = reqAdmin.adminId}
  IN IF reqAdmin.adminId = 0
     THEN [admins |-> admins, res |-> [status |-> 401, error |-> "Unauthorized"]]
     ELSE IF found = {}
     THEN [admins |-> admins, res |-> AdminNotFoundError]
     ELSE LET admin == CHOOSE a \in found : TRUE
          IN IF ~comparePassword(admin, currentPassword)
             THEN [admins |-> admins, res |-> PasswordMismatchError]
             ELSE [admins |->
                     (admins \ {admin}) \cup
                       {preSave([admin EXCEPT !.password_hash =
                                   bcryptHash(Plain(newPassword))], TRUE)},
                   res |-> [status |-> 200, message |-> "Password changed successfully"]]

\* PUT /auth/change-password with the given Authorization header and body:
\* the middleware of the matched route, then its handler when the middleware
\* called next(); what the middleware did is kept with the answer
changePasswordRequestWith(header, currentPassword, newPassword) ==
  LET route == Dispatch(AuthRoutes, "PUT", <<"change-password">>)
      auth == authenticateToken(header)
  IN /\ route.handler = "changePassword"
     /\ Guarded(route)
     /\ IF auth.nexts = 0
        THEN /\ response' = [op |-> "changePassword", status |-> auth.status,
                             error |-> auth.error, auth |-> auth]
             /\ UNCHANGED admins
        ELSE LET done == changePassword(auth.admin, currentPassword, newPassword)
             IN /\ response' = [op |-> "changePassword", auth |-> auth] @@ done.res
                /\ admins' = done.admins
     /\ UNCHANGED <<contacts, nextId, attendance, analyticsRun, clock, inv, signups>>

\* the passwords of the body a request is told apart by: the handler, which
\* alone reads the body, runs only after next()
PasswordsRead(header) ==
  IF authenticateToken(header).nexts = 0
  THEN {CHOOSE password \in Passwords : TRUE}
  ELSE Passwords

changePasswordRequest ==
  \E header \in AuthHeaders :
    \E currentPassword \in PasswordsRead(header), newPassword \in PasswordsRead(header) :
      changePasswordRequestWith(header, currentPassword, newPassword)

NextAuth ==
  \/ \E p \in Procs : signupStart(p)
  \/ \E p \in Procs : signupFindOne(p)
  \/ \E p \in Procs : signupHash(p)
  \/ \E p \in Procs : signupSave(p)
  \/ signin
  \/ changePasswordRequest

\* the admin API: signup calls of two callers await by await, signin and
\* change-password requests in between
SpecAuth == Init /\ [][NextAuth]_vars

\* the one caller of POST /auth/signup
Caller == CHOOSE p \in Procs : \A q \in Procs : p <= q

NextProtected ==
  \/ signupStart(Caller)
  \/ signupFindOne(Caller)
  \/ signupHash(Caller)
  \/ signupSave(Caller)
  \/ changePasswordRequest

\* the protected route PUT /auth/change-password, over the admins that the
\* signup calls of one caller store
SpecProtected == Init /\ [][NextProtected]_vars

(******************* getDashboardAnalytics, await by await *****************)
\* inv[p].pc names the query invocation p is awaiting
AwaitPcs ==
  {"countContacts", "distinctAttended", "distinctRecent", "countMale", "countFemale",
   "weeklyCount", "firstWeek", "stillAttending"}

InFlight(p) == inv[p].pc \in AwaitPcs

\* the other invocation
Other(p) == CHOOSE q \in Procs : q # p

\* the call enters getDashboardAnalytics: currentDate and fiveWeeksAgo are
\* read from the clock, then Contact.countDocuments() is awaited
startAnalytics(p) ==
  /\ inv[p].pc = "idle"
  /\ inv' = [q \in Procs |->
               IF q = p
               THEN [Locals EXCEPT !.pc = "countContacts",
                                   !.currentDate = clock,
                                   !.fiveWeeksAgo = FiveWeeksAgo(clock, clock),
                                   !.overlapped = InFlight(Other(p))]
               ELSE IF InFlight(q) THEN [inv[q] EXCEPT !.overlapped = TRUE] ELSE inv[q]]
  /\ UNCHANGED <<contacts, nextId, attendance, response, analyticsRun, clock, admins, signups>>

\* const totalContacts = await Contact.countDocuments()
awaitCountContacts(p) ==
  /\ inv[p].pc = "countContacts"
  /\ inv' = [inv EXCEPT ![p] = [@ EXCEPT !.pc = "distinctAttended",
                                         !.totalContacts = CountAllContacts(contacts)]]
  /\ UNCHANGED <<contacts, nextId, attendance, response, analyticsRun, clock, admins, signups>>

\* const contactsAttendedAtLeastOnce = await Attendance.distinct('contact_id')
awaitDistinctAttended(p) ==
  /\ inv[p].pc = "distinctAttended"
  /\ inv' = [inv EXCEPT ![p] =
               [@ EXCEPT !.pc = "distinctRecent",
                         !.attendedAtLeastOnceCount =
                            Cardinality(ContactsAttendedAtLeastOnce(attendance))]]
  /\ UNCHANGED <<contacts, nextId, attendance, response, analyticsRun, clock, admins, signups>>

\* const recentAttendees = await Attendance.distinct('contact_id', { date: { $gte: fiveWeeksAgo } })
awaitDistinctRecent(p) ==
  /\ inv[p].pc = "distinctRecent"
  /\ inv' = [inv EXCEPT ![p] =
               [@ EXCEPT !.pc = "countMale",
                         !.stillAttendingCount =
                            Cardinality(RecentAttendees(attendance, inv[p].fiveWeeksAgo))]]
  /\ UNCHANGED <<contacts, nextId, attendance, response, analyticsRun, clock, admins, signups>>

\* const maleCount = await Contact.countDocuments({ gender: 'male' })
awaitCountMale(p) ==
  /\ inv[p].pc = "countMale"
  /\ inv' = [inv EXCEPT ![p] = [@ EXCEPT !.pc = "countFemale",
                                         !.maleCount = CountByGender(contacts, "male")]]
  /\ UNCHANGED <<contacts, nextId, attendance, response, analyticsRun, clock, admins, signups>>

\* mutant: the result array is a field of the service, kept from call to call
NewResultKept(p) == IF inv[Other(p)].pc = "idle" THEN <<>> ELSE inv[Other(p)].result

\* const result = [] of getWeeklyAttendanceTrend
NewResult(p) == <<>>

\* mutant: the loop index is shared by the invocations of the service
LoopIndexShared(p) ==
  LET first == inv[CHOOSE q \in Procs : \A r \in Procs : q <= r]
  IN IF first.pc = "idle" THEN 0 ELSE first.i

\* the loop index i of invocation p
LoopIndex(p) == inv[p].i

\* const femaleCount = await Contact.countDocuments({ gender: 'female' }); then
\* getWeeklyAttendanceTrend(10) is entered: its currentDate and the first
\* window are read from the clock, and the first weekly count is awaited
awaitCountFemale(p) ==
  /\ inv[p].pc = "countFemale"
  /\ inv' = [inv EXCEPT ![p] =
               [@ EXCEPT !.pc = "weeklyCount",
                         !.femaleCount = CountByGender(contacts, "female"),
                         !.result = NewResult(p),
                         !.windows = <<>>,
                         !.trendDate = clock,
                         !.i = WeekCount - 1,
                         !.weekStart = WeekStart(clock, clock, WeekCount - 1),
                         !.weekEnd = WeekEnd(clock, clock, WeekCount - 1)]]
  /\ UNCHANGED <<contacts, nextId, attendance, response, analyticsRun, clock, admins, signups>>

\* const weeklyCount = await Attendance.countDocuments({...}); result.push;
\* then the next iteration builds its window from new Date() and the loop's
\* currentDate, or the loop ends and getRetentionBreakdown(5) is entered, which
\* reads the clock for its own currentDate and startDate
awaitWeeklyCount(p) ==
  /\ inv[p].pc = "weeklyCount"
  /\ LET l == inv[p]
         i == LoopIndex(p)
         pushed == Append(l.result,
                          [week |-> WeekLabel(WeekCount, i),
                           count |-> WeeklyCount(attendance, l.weekStart, l.weekEnd)])
         queried == Append(l.windows, [weekStart |-> l.weekStart, weekEnd |-> l.weekEnd])
         periodStart == PeriodStart(clock, clock, RetentionWeeks)
     IN inv' = [inv EXCEPT ![p] =
                  IF i - 1 >= 0
                  THEN [l EXCEPT !.result = pushed,
                                 !.windows = queried,
                                 !.i = i - 1,
                                 !.weekStart = WeekStart(l.trendDate, clock, i - 1),
                                 !.weekEnd = WeekEnd(l.trendDate, clock, i - 1)]
                  ELSE [l EXCEPT !.pc = "firstWeek",
                                 !.result = pushed,
                                 !.windows = queried,
                                 !.i = i - 1,
                                 !.retentionDate = clock,
                                 !.periodStart = periodStart,
                                 !.periodFirstWeekEnd = PeriodFirstWeekEnd(periodStart)]]
  /\ UNCHANGED <<contacts, nextId, attendance, response, analyticsRun, clock, admins, signups>>

\* the invocation returns its report and the controller sends it: res.json(analytics)
Returned(l, retentionBreakdown) ==
  [l EXCEPT !.pc = "done",
            !.res = [op |-> "getDashboardAnalytics", status |-> 200,
                     body |-> CompileReport(l.totalContacts, l.attendedAtLeastOnceCount,
                                            l.stillAttendingCount, l.maleCount,
                                            l.femaleCount, l.result, retentionBreakdown)]]

\* const firstWeekAttendees = await Attendance.distinct(...): the early return
\* for an empty cohort, or recentWeekStart is read from the clock and the
\* second cohort query is awaited
awaitFirstWeek(p) ==
  /\ inv[p].pc = "firstWeek"
  /\ LET l == inv[p]
         firstWeekAttendees ==
           FirstWeekAttendees(attendance, l.periodStart, l.periodFirstWeekEnd)
     IN inv' = [inv EXCEPT ![p] =
                  IF Cardinality(firstWeekAttendees) = 0
                  THEN Returned([l EXCEPT !.firstWeekAttendees = firstWeekAttendees],
                                EmptyRetention)
                  ELSE [l EXCEPT !.pc = "stillAttending",
                                 !.firstWeekAttendees = firstWeekAttendees,
                                 !.recentWeekStart = RecentWeekStart(l.retentionDate, clock)]]
  /\ UNCHANGED <<contacts, nextId, attendance, response, analyticsRun, clock, admins, signups>>

\* const stillAttendingIds = await Attendance.distinct(...); the retention
\* record and the report are built and returned
awaitStillAttending(p) ==
  /\ inv[p].pc = "stillAttending"
  /\ LET l == inv[p]
         stillAttendingIds ==
           StillAttendingIds(attendance, l.firstWeekAttendees, l.recentWeekStart,
                             l.retentionDate)
     IN inv' = [inv EXCEPT ![p] =
                  Returned(l, RetentionResult(Cardinality(l.firstWeekAttendees),
                                              Cardinality(stillAttendingIds)))]
  /\ UNCHANGED <<contacts, nextId, attendance, response, analyticsRun, clock, admins, signups>>

\* mutant: the rejection is swallowed and the report is built from what has
\* been computed so far
RejectedPartial(l) ==
  [Returned(l, EmptyRetention) EXCEPT !.failedAt = l.pc]

\* the awaited query rejects: the exception leaves getDashboardAnalytics and
\* the controller's catch answers 500
Rejected(l) ==
  [l EXCEPT !.pc = "done",
            !.failedAt = l.pc,
            !.res = [op |-> "getDashboardAnalytics", status |-> 500,
                     error |-> AnalyticsError]]

\* any awaited store query can reject
queryRejects(p) ==
  /\ InFlight(p)
  /\ inv' = [inv EXCEPT ![p] = Rejected(inv[p])]
  /\ UNCHANGED <<contacts, nextId, attendance, response, analyticsRun, clock, admins, signups>>

\* the system clock advances while a query is awaited or between requests
tick ==
  /\ \E now \in NowChoices : now > clock /\ clock' = now
  /\ UNCHANGED <<contacts, nextId, attendance, response, analyticsRun, inv, admins, signups>>

\* attendance records the analytics runs are started over
SeedRecords ==
  {[contact_id |-> 1, date |-> At(FirstDay - 35, 1), attended |-> TRUE],
   [contact_id |-> 1, date |-> At(FirstDay - 7, TicksPerDay - 1), attended |-> TRUE],
   [contact_id |-> 2, date |-> At(FirstDay - 28, 1), attended |-> TRUE],
   [contact_id |-> 2, date |-> At(FirstDay + 1, 1), attended |-> FALSE]}

\* the application after two contacts were created and some attendance marked
InitStores ==
  /\ contacts = {[id |-> 1, gender |-> "male"], [id |-> 2, gender |-> "female"]}
  /\ nextId = 3
  /\ attendance \in {S \in SUBSET SeedRecords : Cardinality(S) <= MaxRecords}
  /\ response = IF attendance = {}
                THEN [op |-> "createContact", status |-> 201]
                ELSE [op |-> "markAttendance", status |-> 201]
  /\ analyticsRun = NoRun
  /\ clock = FirstNow
  /\ inv = [p \in Procs |-> Idle]
  /\ admins = {}
  /\ signups = [p \in Procs |-> NoSignup]

\* one request GET /contacts/dashboard/analytics
FirstProc == CHOOSE p \in Procs : \A q \in Procs : p <= q

NextSteps ==
  \/ startAnalytics(FirstProc)
  \/ awaitCountContacts(FirstProc)
  \/ awaitDistinctAttended(FirstProc)
  \/ awaitDistinctRecent(FirstProc)
  \/ awaitCountMale(FirstProc)
  \/ awaitCountFemale(FirstProc)
  \/ awaitWeeklyCount(FirstProc)
  \/ awaitFirstWeek(FirstProc)
  \/ awaitStillAttending(FirstProc)
  \/ queryRejects(FirstProc)
  \/ tick

\* one invocation, the clock advancing and queries failing at any await
SpecSteps == InitStores /\ [][NextSteps]_vars

NextConcurrent ==
  \E p \in Procs :
    \/ startAnalytics(p)
    \/ awaitCountContacts(p)
    \/ awaitDistinctAttended(p)
    \/ awaitDistinctRecent(p)
    \/ awaitCountMale(p)
    \/ awaitCountFemale(p)
    \/ awaitWeeklyCount(p)
    \/ awaitFirstWeek(p)
    \/ awaitStillAttending(p)
    \/ queryRejects(p)

\* two invocations interleaved at every await, stores and clock unchanged
SpecConcurrent == InitStores /\ [][NextConcurrent]_vars

\* the invocation awaits one of the two cohort queries of getRetentionBreakdown
InRetention(p) == inv[p].pc \in {"firstWeek", "stillAttending"}

NextWrites ==
  \/ startAnalytics(FirstProc)
  \/ awaitCountContacts(FirstProc)
  \/ awaitDistinctAttended(FirstProc)
  \/ awaitDistinctRecent(FirstProc)
  \/ awaitCountMale(FirstProc)
  \/ awaitCountFemale(FirstProc)
  \/ awaitWeeklyCount(FirstProc)
  \/ awaitFirstWeek(FirstProc)
  \/ awaitStillAttending(FirstProc)
  \/ (InRetention(FirstProc) /\ markAttendance)
  \/ (InRetention(FirstProc) /\ deleteAttendance)

\* one invocation with the attendance writes of other requests landing while
\* either cohort query of getRetentionBreakdown is awaited; a write landing
\* earlier changes no value the retention record is built from
SpecWrites == InitStores /\ [][NextWrites]_vars

(***************************** properties *********************************)
\* The state right after getDashboardAnalytics returned: response holds the
\* report, analyticsRun the invocation's reference instant, and the stores
\* are the ones the report was computed from.
IsReport == response.op = "getDashboardAnalytics" /\ response.status = 200
Report == response.body
RefNow == analyticsRun.currentDate
Today == DayOf(RefNow)
Days(n) == n * TicksPerDay

\* p is a finite number in [0, 100]
InRange(p) == p.den > 0 /\ p.num >= 0 /\ p.num <= 100 * p.den
\* p is a finite number equal to 100 * count / denom
IsPct(p, count, denom) == p.den > 0 /\ p.num * denom = 100 * count * p.den

\* the cohort: distinct contacts with an attended record dated in [now - 35 days, now - 28 days)
Cohort ==
  {r.contact_id : r \in {x \in attendance :
      x.attended /\ x.date >= RefNow - Days(35) /\ x.date < RefNow - Days(28)}}
\* the cohort members with an attended record dated in [now - 7 days, now]
CohortStill ==
  {c \in Cohort : \E r \in attendance :
      r.contact_id = c /\ r.attended /\ r.date >= RefNow - Days(7) /\ r.date <= RefNow}
\* the calendar days of weekly bucket k (1 = oldest, WeekCount = the week ending today)
BucketDays(k) == (Today - 7 * (WeekCount - k) - 6) .. (Today - 7 * (WeekCount - k))

\* C1: every percentage field of every report lies in [0, 100]
C1_PercentagesInRange ==
  IsReport =>
    /\ InRange(Report.attendedAtLeastOnce.percentage)
    /\ InRange(Report.stillAttending.percentage)
    /\ InRange(Report.genderDistribution.male.percentage)
    /\ InRange(Report.genderDistribution.female.percentage)
    /\ InRange(Report.retentionBreakdown.stillAttending.percentage)
    /\ InRange(Report.retentionBreakdown.dropOut.percentage)

\* C2: retention stillAttending.count + dropOut.count is the size of the
\* cohort, and both counts are 0 when the cohort is empty
C2_RetentionSumsToCohort ==
  IsReport =>
    LET rb == Report.retentionBreakdown
    IN /\ rb.stillAttending.count + rb.dropOut.count = Cardinality(Cohort)
       /\ Cohort = {} => rb.stillAttending.count = 0 /\ rb.dropOut.count = 0

\* a report over a cohort of two contacts, neither of which re-attended
C2_Witness ==
  /\ IsReport
  /\ Cardinality(Cohort) = 2
  /\ Report.retentionBreakdown.dropOut.count = 2

\* C3: the 10 weekly windows are whole days, 7 days long, each starting the
\* tick after the previous one ends, the last ending at end of day today;
\* every instant of the trailing 70 days lies in exactly one window
C3_BucketsContiguous ==
  IsReport =>
    LET w == analyticsRun.weekWindows
    IN /\ Len(w) = WeekCount
       /\ \A k \in 1 .. WeekCount :
            /\ TimeOf(w[k].weekStart) = 0
            /\ TimeOf(w[k].weekEnd) = TicksPerDay - 1
            /\ DayOf(w[k].weekEnd) - DayOf(w[k].weekStart) = 6
       /\ \A k \in 1 .. (WeekCount - 1) : w[k + 1].weekStart = w[k].weekEnd + 1
       /\ w[WeekCount].weekEnd = At(Today, TicksPerDay - 1)
       /\ \A t \in At(Today - 7 * WeekCount + 1, 0) .. At(Today, TicksPerDay - 1) :
            Cardinality({k \in 1 .. WeekCount :
                           w[k].weekStart <= t /\ t <= w[k].weekEnd}) = 1

\* a report computed on the first day of a month, where every window is
\* reached by setDate with a day of month below 1
C3_Witness ==
  /\ IsReport
  /\ getDate(RefNow) = 1
  /\ Len(analyticsRun.weekWindows) = WeekCount

\* C4: the trend has 10 entries labelled 1..10 in ascending order, entry k
\* being the count of the k-th oldest window
C4_TrendLabels ==
  IsReport =>
    LET trend == Report.weeklyAttendanceTrend
        w == analyticsRun.weekWindows
    IN /\ Len(trend) = WeekCount
       /\ \A k \in 1 .. WeekCount : trend[k].week = k
       /\ \A k \in 1 .. (WeekCount - 1) :
            trend[k].week < trend[k + 1].week /\ w[k].weekEnd < w[k + 1].weekStart
       /\ \A k \in 1 .. WeekCount :
            DayOf(w[k].weekEnd) = Today - 7 * (WeekCount - k)

\* a report with one attended record in the week-9 window and none in week 10
C4_Witness ==
  /\ IsReport
  /\ Report.weeklyAttendanceTrend[9].week = 9
  /\ Report.weeklyAttendanceTrend[9].count = 1
  /\ Report.weeklyAttendanceTrend[10].count = 0

\* C5: the count of bucket k is the number of attended records dated on one
\* of the bucket's 7 calendar days, first tick of the first day to last tick
\* of the last day included; attended = false records are not counted
C5_WeeklyCount ==
  IsReport =>
    \A k \in 1 .. WeekCount :
      Report.weeklyAttendanceTrend[k].count =
        Cardinality({r \in attendance : r.attended /\ DayOf(r.date) \in BucketDays(k)})

\* a record dated at the last tick of a bucket's last day is counted in that
\* bucket and not in the next, while an attended = false record dated in a
\* bucket is not counted
C5_Witness ==
  /\ IsReport
  /\ \E k \in 1 .. (WeekCount - 1) :
       /\ \E r \in attendance :
            /\ r.attended
            /\ r.date = analyticsRun.weekWindows[k].weekEnd
       /\ Report.weeklyAttendanceTrend[k].count = 1
       /\ Report.weeklyAttendanceTrend[k + 1].count = 0
  /\ \E k \in 1 .. WeekCount :
       /\ \E r \in attendance : ~r.attended /\ DayOf(r.date) \in BucketDays(k)
       /\ Report.weeklyAttendanceTrend[k].count = 0

\* C6: retention stillAttending.count is the number of cohort contacts with
\* an attended record in [now - 7 days, now], dropOut.count the rest of the
\* cohort, and both percentages are 100 * count / |cohort|
C6_Retention ==
  IsReport =>
    LET rb == Report.retentionBreakdown
    IN /\ rb.stillAttending.count = Cardinality(CohortStill)
       /\ rb.dropOut.count = Cardinality(Cohort) - Cardinality(CohortStill)
       /\ Cohort # {} =>
            /\ IsPct(rb.stillAttending.percentage, Cardinality(CohortStill), Cardinality(Cohort))
            /\ IsPct(rb.dropOut.percentage,
                     Cardinality(Cohort) - Cardinality(CohortStill), Cardinality(Cohort))

\* a cohort of one among two stored contacts, re-attending in the last week:
\* 100 percent of the cohort although it is half of the contacts
C6_Witness ==
  /\ IsReport
  /\ Report.totalContacts = 2
  /\ Cardinality(Cohort) = 1
  /\ Cardinality(CohortStill) = 1
  /\ Report.retentionBreakdown.stillAttending.percentage = [num |-> 100, den |-> 1]
  /\ Report.retentionBreakdown.dropOut.percentage = Zero

\* C7: stillAttending.count is the number of distinct contacts with an
\* attended = true record dated within the trailing 35 days from now
C7_StillAttendingAttendedOnly ==
  IsReport =>
    Report.stillAttending.count =
      Cardinality({r.contact_id : r \in {x \in attendance :
          x.attended /\ x.date >= RefNow - Days(35) /\ x.date <= RefNow}})

C9_GenderCountsSum ==
  (IsReport /\ \A c \in contacts : c.gender \in Genders) =>
    Report.totalContacts =
      Report.genderDistribution.male.count + Report.genderDistribution.female.count

\* a report over one male and one female contact
C9_Witness ==
  /\ IsReport
  /\ \A c \in contacts : c.gender \in Genders
  /\ Report.genderDistribution.male.count = 1
  /\ Report.genderDistribution.female.count = 1
  /\ Report.totalContacts = 2

\* C10: no percentage is NaN or Infinity; with no contact the four
\* percentages over totalContacts are 0, with an empty cohort the retention
\* breakdown is all zero, and with empty stores the whole report is zero
\* with 10 trend entries of count 0
C10_ZeroDenominator ==
  IsReport =>
    LET rb == Report.retentionBreakdown
        gd == Report.genderDistribution
        zero == [count |-> 0, percentage |-> Zero]
    IN /\ \A p \in {Report.attendedAtLeastOnce.percentage, Report.stillAttending.percentage,
                    gd.male.percentage, gd.female.percentage,
                    rb.stillAttending.percentage, rb.dropOut.percentage} : p.den > 0
       /\ contacts = {} =>
            /\ Report.totalContacts = 0
            /\ Report.attendedAtLeastOnce.percentage = Zero
            /\ Report.stillAttending.percentage = Zero
            /\ gd.male.percentage = Zero
            /\ gd.female.percentage = Zero
       /\ Cohort = {} => rb = [stillAttending |-> zero, dropOut |-> zero]
       /\ (contacts = {} /\ attendance = {}) =>
            /\ Report.attendedAtLeastOnce = zero
            /\ Report.stillAttending = zero
            /\ gd = [male |-> zero, female |-> zero]
            /\ Len(Report.weeklyAttendanceTrend) = WeekCount
            /\ \A k \in 1 .. WeekCount : Report.weeklyAttendanceTrend[k].count = 0

\* a report over no contact while attendance records of deleted contacts
\* remain (numerator 2, denominator 0), the cohort being empty
C10_Witness ==
  /\ IsReport
  /\ contacts = {}
  /\ Report.attendedAtLeastOnce.count = 2
  /\ Report.attendedAtLeastOnce.percentage = Zero
  /\ Cohort = {}

\* no two stored attendance records share a (contact_id, date) pair
UniquePairs(att) ==
  \A r1 \in att : \A r2 \in att :
    (r1.contact_id = r2.contact_id /\ r1.date = r2.date) => r1 = r2

\* C17: every step leaves at most one attendance record per (contact_id, date)
\* pair, and a markAttendance (service call or POST /attendance with complete
\* fields) for a pair that already has a record answers with an error and
\* leaves the attendance records unchanged
C17_UniquePerContactDate ==
  [][/\ UniquePairs(attendance')
     /\ response'.op \in {"markAttendance", "POST /attendance"} =>
          \A r \in attendance :
            /\ \A a \in BOOLEAN :
                 markAttendanceWith(r.contact_id, r.date, a) =>
                   attendance' = attendance /\ response'.status = 400
            /\ \A f \in AttendedFields : \A m \in MarkedByFields :
                 postAttendanceWith(r.contact_id, r.date, f, m) =>
                   attendance' = attendance /\ response'.status = 400]_vars

\* a POST /attendance was rejected for the duplicate key while the store holds
\* records of two different days for one contact
C17_Witness ==
  /\ response.op = "POST /attendance"
  /\ response.status = 400
  /\ response.error = "E11000 duplicate key error"
  /\ \E r1 \in attendance : \E r2 \in attendance :
       r1.contact_id = r2.contact_id /\ r1.date # r2.date

\* C18: every stored attendance record is dated at a calendar-day boundary
C18_DateNormalized ==
  \A r \in attendance : TimeOf(r.date) = 0

\* C19: a POST /attendance with contactId, date, markedBy and attended = false
\* for a pair without a record answers 201 and stores a record with attended = false
C19_AttendedFalseAccepted ==
  [][\A id \in ContactIds : \A d \in DateChoices :
       (/\ ~DuplicateKey(attendance, id, d)
        /\ postAttendanceWith(id, d, "false", "usher")) =>
         /\ response'.status = 201
         /\ [contact_id |-> id, date |-> d, attended |-> FALSE] \in attendance']_vars

\* C20: every stored contact has gender male or female
C20_GenderEnum ==
  \A c \in contacts : c.gender \in Genders

\* C14: a call of getDashboardAnalytics, answered 200 or 500, leaves the
\* contacts and the attendance records as they were
C14_ReadOnly ==
  [][response'.op = "getDashboardAnalytics" =>
       (contacts' = contacts /\ nextId' = nextId /\ attendance' = attendance)]_vars

\* a failed call over stores that hold a contact and the attendance record of
\* a contact that was deleted
C14_Witness ==
  /\ response.op = "getDashboardAnalytics"
  /\ response.status = 500
  /\ contacts # {}
  /\ \E r \in attendance : \A c \in contacts : c.id # r.contact_id

\* C16: GET /contacts/dashboard/analytics without a verified admin token is
\* answered 401 or 403
C16_AnalyticsRequiresAdmin ==
  [][\A header \in AuthHeaders \ {"Bearer admin", "Bearer admin2"} :
       getDashboardAnalyticsRequestWith(header) => response'.status \in {401, 403}]_vars

\* invocation p returned its report
Completed(p) == inv[p].pc = "done" /\ inv[p].res.status = 200

\* C11: two calls over the same stores at the same instant return identical reports
C11_Idempotent ==
  \A p \in Procs : \A q \in Procs :
    (Completed(p) /\ Completed(q)) => inv[p].res.body = inv[q].res.body

\* two calls, the second started after the first returned, over a store with a
\* counted attendance and a non-empty cohort
C11_Witness ==
  /\ \A p \in Procs : Completed(p) /\ ~inv[p].overlapped
  /\ inv[FirstProc].res.body.totalContacts = 2
  /\ inv[FirstProc].res.body.retentionBreakdown.dropOut.count = 1
  /\ \E k \in 1 .. WeekCount : inv[FirstProc].res.body.weeklyAttendanceTrend[k].count > 0

\* C12: every window of a completed invocation is derived from the instant
\* read at its start: the weekly trend and the retention breakdown use the
\* same currentDate and the windows computed from it
C12_SingleReferenceInstant ==
  \A p \in Procs :
    Completed(p) =>
      LET l == inv[p]
          now == l.currentDate
      IN /\ l.trendDate = now
         /\ l.retentionDate = now
         /\ l.fiveWeeksAgo = FiveWeeksAgo(now, now)
         /\ l.windows = WeekWindows(attendance, now, WeekCount)
         /\ l.periodStart = PeriodStart(now, now, RetentionWeeks)
         /\ l.periodFirstWeekEnd = PeriodFirstWeekEnd(PeriodStart(now, now, RetentionWeeks))
         /\ l.firstWeekAttendees # {} => l.recentWeekStart = RecentWeekStart(now, now)

\* C13: each of two interleaved invocations returns the report of an
\* invocation run alone over the same stores at the same instant
C13_NoInterference ==
  \A p \in Procs :
    Completed(p) => inv[p].res.body = getDashboardAnalytics(contacts, attendance, clock)

\* both invocations returned, each having run while the other was awaiting a
\* query, over a store with a counted attendance
C13_Witness ==
  /\ \A p \in Procs : Completed(p) /\ inv[p].overlapped
  /\ \E k \in 1 .. WeekCount : inv[FirstProc].res.body.weeklyAttendanceTrend[k].count > 0
  /\ inv[FirstProc].res.body.retentionBreakdown.stillAttending.count = 1

\* C15: an invocation one of whose queries rejected is answered 500 with the
\* single error message and no report, and a 200 answer comes only from an
\* invocation none of whose queries rejected and carries all 10 weekly entries
C15_AllOrNothing ==
  \A p \in Procs :
    /\ (inv[p].pc # "idle" /\ inv[p].failedAt # "none") =>
         /\ inv[p].pc = "done"
         /\ inv[p].res.status = 500
         /\ inv[p].res.error = AnalyticsError
         /\ "body" \notin DOMAIN inv[p].res
    /\ Completed(p) =>
         /\ inv[p].failedAt = "none"
         /\ Len(inv[p].res.body.weeklyAttendanceTrend) = WeekCount

\* a weekly count rejected in the middle of the loop, after some entries were pushed
C15_Witness ==
  \E p \in Procs :
    /\ inv[p].pc = "done"
    /\ inv[p].failedAt = "weeklyCount"
    /\ Len(inv[p].result) \in 1 .. (WeekCount - 1)
    /\ inv[p].res.status = 500

\* C25: in every report computed in one piece, stillAttending.count is at
\* most attendedAtLeastOnce.count
C25_StillWithinAttended ==
  IsReport => Report.stillAttending.count <= Report.attendedAtLeastOnce.count

\* a report over two contacts with records, one with a record in the last 35
\* days and the other with a record older than that
C25_Witness ==
  /\ IsReport
  /\ Report.attendedAtLeastOnce.count = 2
  /\ Report.stillAttending.count = 1
  /\ \E r \in attendance : r.date < RefNow - Days(35)

\* C26: in every report computed in one piece at one instant, the retention
\* stillAttending.count is at most the top-level stillAttending.count
C26_RetentionWithinStill ==
  IsReport =>
    Report.retentionBreakdown.stillAttending.count <= Report.stillAttending.count

\* a report whose cohort member re-attended 7 days before the reference day
C26_Witness ==
  /\ IsReport
  /\ Report.retentionBreakdown.stillAttending.count = 1
  /\ Report.stillAttending.count = 1
  /\ \A r \in attendance : r.date < RefNow - Days(5)

\* C27: deleteContact(id) removes the contact with that id and nothing else,
\* keeps every attendance record, and for an id without a contact answers 404
\* 'Contact not found' and changes nothing
C27_DeleteContactFrame ==
  [][\A id \in ContactIds :
       deleteContactWith(id) =>
         /\ contacts' = {c \in contacts : c.id # id}
         /\ attendance' = attendance
         /\ nextId' = nextId
         /\ (\A c \in contacts : c.id # id) =>
              /\ contacts' = contacts
              /\ response'.status = 404
              /\ response'.error = "Contact not found"]_vars

\* a contact was deleted, its attendance record is still stored and another
\* contact is still stored
C27_Witness ==
  /\ response.op = "deleteContact"
  /\ response.status = 200
  /\ contacts # {}
  /\ \E r \in attendance : \A c \in contacts : c.id # r.contact_id

\* C24: whatever attendance writes land between the cohort query and the
\* recent-week query of one invocation, the retention record it returns has a
\* dropOut.count that is not negative and a stillAttending.count that is at
\* most the size of the cohort the first query returned
C24_RetentionUnderWrites ==
  Completed(FirstProc) =>
    LET retention == inv[FirstProc].res.body.retentionBreakdown
    IN /\ retention.dropOut.count >= 0
       /\ retention.stillAttending.count <= Cardinality(inv[FirstProc].firstWeekAttendees)

\* the invocation returned a record with a drop-out, and the cohort it read is
\* not the cohort of the store it returned over: a write landed after the
\* cohort query (no write is taken once the invocation has returned)
C24_Witness ==
  /\ Completed(FirstProc)
  /\ inv[FirstProc].firstWeekAttendees # {}
  /\ inv[FirstProc].firstWeekAttendees #
       FirstWeekAttendees(attendance, inv[FirstProc].periodStart,
                          inv[FirstProc].periodFirstWeekEnd)
  /\ \E r \in attendance :
       /\ r.contact_id \notin inv[FirstProc].firstWeekAttendees
       /\ r.attended
       /\ r.date >= inv[FirstProc].recentWeekStart
       /\ r.date <= inv[FirstProc].retentionDate

\* C21: a signin with the email and the password of a signup that was
\* answered with a token, the admin being stored as that signup saved it, is
\* answered 200 with a token
C21_SigninAfterSignup ==
  [][\A email \in EmailInputs, password \in Passwords :
       (/\ response'.op = "signin"
        /\ signinWith(email, password)
        /\ \E p \in Procs : /\ signups[p].pc = "done"
                            /\ signups[p].res.status = 201
                            /\ signups[p].email = email
                            /\ signups[p].password = password
                            /\ signups[p].res.savedAdmin \in admins)
       => (response'.status = 200 /\ "token" \in DOMAIN response')]_vars

\* C22: a signup call whose email is the email of a stored admin ends with
\* AdminExistsError, answered 400, returns no token and leaves the admin
\* collection as it was
C22_SignupExistingEmail ==
  [][\A p \in Procs :
       (signupFindOne(p) /\ \E a \in admins : a.email = signups[p].email)
       => /\ signups'[p].pc = "done"
          /\ signups'[p].res.status = 400
          /\ signups'[p].res.error = "AdminExistsError"
          /\ "token" \notin DOMAIN signups'[p].res
          /\ admins' = admins]_vars

\* a signup was refused for the email of the one stored admin
C22_Witness ==
  \E p \in Procs :
    /\ signups[p].pc = "done"
    /\ signups[p].res.status = 400
    /\ Cardinality(admins) = 1
    /\ \E a \in admins : a.email = signups[p].email

\* C29: however signup calls with the same email interleave, at most one
\* admin with that email is stored and at most one of the calls was answered
\* with a token
C29_OneAdminPerEmail ==
  \A email \in EmailInputs :
    /\ Cardinality({a \in admins : a.email = Lowercase(email)}) <= 1
    /\ Cardinality({p \in Procs : /\ signups[p].pc = "done"
                                  /\ Lowercase(signups[p].email) = Lowercase(email)
                                  /\ signups[p].res.status = 201}) <= 1

\* two calls with the same email both passed the existence check before
\* either saved: one was answered with a token, the save of the other was
\* rejected by the unique index
C29_Witness ==
  \E p \in Procs : \E q \in Procs :
    /\ signups[p].pc = "done" /\ signups[q].pc = "done"
    /\ signups[p].email = signups[q].email
    /\ signups[p].res.status = 201
    /\ signups[q].res.status = 500
    /\ Cardinality(admins) = 1

\* C28: on a protected route authenticateToken either calls next() once,
\* with req.admin the payload of the verified token, and sends nothing, or
\* sends one 401 answer and does not call next(); it does not call next()
\* when the header is missing, has no second space-separated part or carries
\* a token that does not verify
C28_NextOrRefuse ==
  [][\A header \in AuthHeaders, currentPassword \in Passwords, newPassword \in Passwords :
       (/\ response'.op = "changePassword"
        /\ changePasswordRequestWith(header, currentPassword, newPassword)) =>
         LET auth == response'.auth
         IN /\ \/ /\ auth.nexts = 1
                  /\ auth.sent = 0
                  /\ header \in {"Bearer admin", "Bearer admin2"}
                  /\ auth.admin.adminId = (IF header = "Bearer admin" THEN 1 ELSE 2)
               \/ /\ auth.nexts = 0
                  /\ auth.sent = 1
                  /\ auth.status = 401
                  /\ response'.status = 401
                  /\ admins' = admins
            /\ header \in {"none", "", "Bearer", "Bearer ", "Bearer invalid"}
                 => auth.nexts = 0]_vars

\* a request with a verified token reached the handler, which refused the
\* current password of the stored admin
C28_Witness ==
  /\ response.op = "changePassword"
  /\ response.auth.nexts = 1
  /\ response.status = 400
  /\ \E a \in admins : a.id = response.auth.admin.adminId

\* C23: GET /contacts/first-timers is handled by getFirstTimers and answered
\* 200, it is not taken for GET /contacts/:id
C23_FirstTimersRoute ==
  [][getContactsRequestWith(<<"first-timers">>) =>
       (response'.op = "getFirstTimers" /\ response'.status = 200)]_vars

\* C30 as stated: the answer holds exactly the stored contacts that satisfy
\* every filter the body carries, a filter that is absent constraining nothing
C30_EverySuppliedFilter ==
  [][\A filters \in FilterInputs :
       (/\ response'.op = "filterContacts"
        /\ filterContactsRequestWith(filters)
        /\ filters.dateRange.given => (filters.dateRange.start.valid
                                       /\ filters.dateRange.end.valid))
       => /\ response'.status = 200
          /\ Len(response'.body) = Cardinality({response'.body[k] : k \in DOMAIN response'.body})
          /\ {response'.body[k] : k \in DOMAIN response'.body} =
               {c \in contacts :
                  /\ filters.gender # "undefined" => c.gender = filters.gender
                  /\ filters.evangelist # "undefined" =>
                       c.evangelist_name = filters.evangelist
                  /\ filters.dateRange.given =>
                       /\ c.first_visit_date >= filters.dateRange.start.time
                       /\ c.first_visit_date <= filters.dateRange.end.time}]_vars

\* C30 amended: the answer holds exactly the stored contacts that satisfy
\* every filter the body carries with a value other than the empty string;
\* an absent or empty filter constrains nothing
C30_EveryNonEmptyFilter ==
  [][\A filters \in FilterInputs :
       (/\ response'.op = "filterContacts"
        /\ filterContactsRequestWith(filters)
        /\ filters.dateRange.given => (filters.dateRange.start.valid
                                       /\ filters.dateRange.end.valid))
       => /\ response'.status = 200
          /\ Len(response'.body) = Cardinality({response'.body[k] : k \in DOMAIN response'.body})
          /\ {response'.body[k] : k \in DOMAIN response'.body} =
               {c \in contacts :
                  /\ filters.gender \notin {"undefined", ""} => c.gender = filters.gender
                  /\ filters.evangelist \notin {"undefined", ""} =>
                       c.evangelist_name = filters.evangelist
                  /\ filters.dateRange.given =>
                       /\ c.first_visit_date >= filters.dateRange.start.time
                       /\ c.first_visit_date <= filters.dateRange.end.time}]_vars

\* a filter answered with one of two stored contacts, the other one failing it
C30_Witness ==
  /\ response.op = "filterContacts"
  /\ response.status = 200
  /\ Cardinality(contacts) = 2
  /\ Len(response.body) = 1
  /\ \E c \in contacts : c.first_visit_date # response.body[1].first_visit_date

====
